---- MODULE Spec2Model ----
(***************************************************************************)
(* Verification model of the room-scripting engine of http-server-module:  *)
(* the value codec (rpc-types), the rate limiters, registration, script    *)
(* loading and the RPC dispatch path (rpc), the virtual document (dom),    *)
(* and the minimal participant state.                                      *)
(***************************************************************************)
EXTENDS Integers, Sequences, FiniteSets, TLC

VARIABLES
    cShape,     \* codec: call shape of RpcArguments.serialize ("explicit" / "variadic")
    cList,      \* codec: the ordered values the caller means to send
    cWire,      \* codec: the wire value returned by RpcArguments.serialize
    cOut,       \* codec: the value returned by RpcArguments.read
    cAgain,     \* codec: the value returned by a second read of the same wire value
    cPc,        \* codec: position of the encode/decode run
    now,        \* Date.now()
    gl,         \* a GlobalRateLimiter instance: this.last, this.calls
    glRate,     \* its config.maxRate
    pu,         \* a PerUserRateLimiter instance: this.clients
    lcall,      \* the most recent allows() call on gl / pu and what it returned
    solo,       \* per caller, a GlobalRateLimiter that sees only that caller's calls
    phase,      \* RpcHandler load state
    pending,    \* script tasks of setDocumentXml that have not run yet
    registry,   \* InternalInterspaceModule.registeredFunctions
    states,     \* room.states: the participants currently in the room
    last,       \* the most recent RpcHandler.invoke call and its outcome
    ready,      \* how many times `ready` was emitted on the server surface
    joinQ,      \* joins whose handler.loaded().then(...) callback has not run yet
    jlog,       \* the joins the latest step emitted on the clients surface
    mstate,     \* a MinimalClient's this.state: x, y, z and which object it is
    mlast,      \* the most recent updateState call on it
    oCall,      \* a script's open(...) call: the surface, the arguments, the registry before
    oPc,        \* its position: the open call, then a call of the invoker it returned
    oRes,       \* what open did, and what the invoker did
    tree,       \* the room document's nodes: what holds each, and the children lists
    wraps,      \* node.__vmElement of each node, and the wrappers constructed so far
    dlast,      \* the most recent call a script made on the document or a wrapper
    muts,       \* how many mutator calls the script has made
    sdone,      \* what became of each script the description names
    vmdocs      \* the VMDocuments constructed, the slot of DocumentTo$ and the last query

codecVars == <<cShape, cList, cWire, cOut, cAgain, cPc>>
limVars   == <<gl, glRate, pu, lcall, solo>>
rpcVars   == <<phase, pending, registry, states, last, ready, joinQ, jlog, sdone>>
cliVars   == <<mstate, mlast>>
openVars  == <<oCall, oPc, oRes>>
domVars   == <<tree, wraps, dlast, muts>>
docVars   == <<vmdocs>>
sideVars  == <<cliVars, openVars, domVars, docVars>>
vars      == <<cShape, cList, cWire, cOut, cAgain, cPc, now, gl, glRate, pu, lcall, solo,
               phase, pending, registry, states, last, ready, joinQ, jlog, sdone,
               mstate, mlast,
               oCall, oPc, oRes, tree, wraps, dlast, muts, vmdocs>>

(***************************************************************************)
(* JavaScript values.  Every value is a record [t, p, k, e]: t the type,   *)
(* p the characters of a primitive (a string's characters, the digits of a *)
(* number), k the own keys of an object in Object.keys order, e the        *)
(* elements of an array, the values of an object, or x,y,z of a Vector3.   *)
(***************************************************************************)
JS(t, p, k, e) == [t |-> t, p |-> p, k |-> k, e |-> e]

Undefined == JS("undefined", <<>>, <<>>, <<>>)
Null      == JS("null", <<>>, <<>>, <<>>)
Num(d)    == JS("num", d, <<>>, <<>>)
Str(s)    == JS("str", s, <<>>, <<>>)
Bool(b)   == JS("bool", IF b THEN <<"1">> ELSE <<>>, <<>>, <<>>)
Arr(es)   == JS("arr", <<>>, <<>>, es)
Obj(ks, vs) == JS("obj", <<>>, ks, vs)
Vector3(x, y, z) == JS("v3", <<>>, <<>>, <<x, y, z>>)
\* a thrown Error, carried as a value so that it propagates to the caller
Thrown    == JS("throw", <<>>, <<>>, <<>>)
\* a function value, and an instance of a class (a VMClient, a VMElement) with
\* its own enumerable properties
Fn        == JS("fn", <<>>, <<>>, <<>>)
Live(ks, vs) == JS("live", <<>>, ks, vs)

\* JavaScript truthiness: !v
Falsy(v) ==
    \/ v.t \in {"undefined", "null"}
    \/ v.t = "num" /\ v.p = <<"0">>
    \/ v.t = "str" /\ v.p = <<>>
    \/ v.t = "bool" /\ v.p = <<>>

\* arr[i] of a JavaScript array (0-based in the source, 1-based here)
At(es, i) == IF i \in 1..Len(es) THEN es[i] ELSE Undefined

\* property-key conversion of obj[key]
KeyOf(v) ==
    CASE v.t \in {"str", "num"} -> v.p
      [] v.t = "null"           -> <<"n", "u", "l", "l">>
      [] v.t = "bool"           -> IF v.p = <<>> THEN <<"f">> ELSE <<"t">>
      [] OTHER                  -> <<"?">>

RECURSIVE IndexOf(_, _, _)
IndexOf(ks, key, i) ==
    IF i > Len(ks) THEN 0
    ELSE IF ks[i] = key THEN i ELSE IndexOf(ks, key, i + 1)

\* obj[key] = val on a plain object: a new key is appended, an existing one
\* keeps its position
SetKey(obj, key, val) ==
    LET i == IndexOf(obj.k, key, 1) IN
    IF i = 0 THEN Obj(Append(obj.k, key), Append(obj.e, val))
    ELSE Obj(obj.k, [obj.e EXCEPT ![i] = val])

\* nameFor with the typeof test ahead of the Vector3 test
nameFor_objectFirst(obj) ==
    IF Falsy(obj) THEN Null
    ELSE IF obj.t = "arr" THEN Str(<<"a">>)
    ELSE IF obj.t \in {"obj", "v3"} THEN Str(<<"o">>)
    ELSE Undefined

\* RpcTypes.nameFor
nameFor(obj) ==
    IF Falsy(obj) THEN Null
    ELSE IF obj.t = "v3" THEN Str(<<"v", "3">>)
    ELSE IF obj.t = "arr" THEN Str(<<"a">>)
    ELSE IF obj.t \in {"obj", "live"} THEN Str(<<"o">>)
    ELSE Undefined

RECURSIVE RpcTypes_serialize(_)
RECURSIVE RpcArguments_serialize(_)
RECURSIVE RpcTypes_read(_, _)
RECURSIVE RpcArguments_read(_)
RECURSIVE ReduceKeys(_, _, _, _)

\* RpcArguments.serialize without the empty-list test
RpcArguments_serialize_noSentinel(argv) ==
    LET args == IF Len(argv) = 1 /\ argv[1].t = "arr" THEN argv[1].e ELSE argv
    IN  Arr([i \in 1..Len(args) |-> RpcTypes_serialize(args[i])])

\* RpcArguments.serialize, applied to the `arguments` it was called with
RpcArguments_serialize(argv) ==
    LET args == IF Len(argv) = 1 /\ argv[1].t = "arr" THEN argv[1].e ELSE argv
    IN  IF Len(args) = 0 THEN Null
        ELSE Arr([i \in 1..Len(args) |-> RpcTypes_serialize(args[i])])

\* RpcTypes.serialize
RpcTypes_serialize(obj) ==
    LET typeName == nameFor(obj) IN
    IF Falsy(typeName) THEN obj
    ELSE CASE typeName.p = <<"a">> ->
                Arr(<<typeName, RpcArguments_serialize(<<obj>>)>>)
           [] typeName.p = <<"o">> ->
                LET keys == Arr([i \in 1..Len(obj.k) |-> Str(obj.k[i])])
                    vals == Arr(obj.e)
                IN  Arr(<<typeName, RpcArguments_serialize(<<keys>>),
                          RpcArguments_serialize(<<vals>>)>>)
           [] typeName.p = <<"v", "3">> ->
                Arr(<<typeName, RpcArguments_serialize(obj.e)>>)
           [] OTHER -> Thrown

\* keys.reduce((obj, key, index) => { obj[key] = vals[index]; return obj }, {})
ReduceKeys(keys, vals, i, acc) ==
    IF i > Len(keys) THEN acc
    ELSE ReduceKeys(keys, vals, i + 1, SetKey(acc, KeyOf(keys[i]), At(vals, i)))

\* RpcTypes.read: serialized is the tagged array with the type removed
RpcTypes_read(typeName, serialized) ==
    CASE typeName = Str(<<"a">>) ->
            RpcArguments_read(At(serialized, 1))
      [] typeName = Str(<<"o">>) ->
            LET keys == RpcArguments_read(At(serialized, 1))
                vals == RpcArguments_read(At(serialized, 2))
            IN  IF keys = Thrown \/ vals = Thrown THEN Thrown
                ELSE ReduceKeys(keys.e, vals.e, 1, Obj(<<>>, <<>>))
      [] typeName = Str(<<"v", "3">>) ->
            LET vector == RpcArguments_read(At(serialized, 1))
                D(c) == IF c = Undefined THEN Num(<<"0">>) ELSE c
            IN  IF vector = Thrown THEN Thrown
                ELSE Vector3(D(At(vector.e, 1)), D(At(vector.e, 2)),
                             D(At(vector.e, 3)))
      [] OTHER -> Thrown

\* RpcArguments.read
RpcArguments_read(serializedArgs) ==
    IF Falsy(serializedArgs) THEN Arr(<<>>)
    ELSE IF serializedArgs.t # "arr" THEN Thrown
    ELSE LET one(rawArg) ==
                 IF rawArg.t # "arr" THEN rawArg
                 ELSE RpcTypes_read(At(rawArg.e, 1), SubSeq(rawArg.e, 2, Len(rawArg.e)))
             out == [i \in 1..Len(serializedArgs.e) |-> one(serializedArgs.e[i])]
         IN  IF \E i \in 1..Len(out) : out[i] = Thrown THEN Thrown ELSE Arr(out)

RECURSIVE argsAfterRead(_)
RECURSIVE rawArgAfterRead(_)

\* the array serializedArgs as RpcArguments.read leaves it: map visits the
\* elements in order up to the first one whose read throws
argsAfterRead(serializedArgs) ==
    IF Falsy(serializedArgs) \/ serializedArgs.t # "arr" THEN serializedArgs
    ELSE LET es    == serializedArgs.e
             bad   == {i \in 1..Len(es) : RpcArguments_read(Arr(<<es[i]>>)) = Thrown}
             stop  == IF bad = {} THEN Len(es)
                      ELSE CHOOSE i \in bad : \A j \in bad : i <= j
         IN  Arr([i \in 1..Len(es) |->
                    IF i <= stop THEN rawArgAfterRead(es[i]) ELSE es[i]])

\* one rawArg as the callback of that map leaves it: rawArg.shift() takes
\* the type name out of the array, RpcTypes.read then reads what is left
rawArgAfterRead(rawArg) ==
    IF rawArg.t # "arr" \/ rawArg.e = << >> THEN rawArg
    ELSE LET typeName   == rawArg.e[1]
             serialized == Tail(rawArg.e)
         IN  IF serialized = << >> THEN Arr(<< >>)
             ELSE CASE typeName \in {Str(<<"a">>), Str(<<"v", "3">>)} ->
                         Arr(<<argsAfterRead(serialized[1])>> \o Tail(serialized))
                    [] typeName = Str(<<"o">>) ->
                         IF Len(serialized) = 1
                               \/ RpcArguments_read(serialized[1]) = Thrown
                         THEN Arr(<<argsAfterRead(serialized[1])>> \o Tail(serialized))
                         ELSE Arr(<<argsAfterRead(serialized[1]),
                                    argsAfterRead(serialized[2])>>
                                  \o SubSeq(serialized, 3, Len(serialized)))
                    [] OTHER -> Arr(serialized)


(***************************************************************************)
(* Inputs of the codec runs.                                               *)
(***************************************************************************)
MaxLen   == 2     \* longest sequence / most keys of a first-level composite
MaxDepth == 2     \* nesting depth of the values

Keys    == {<<"a">>, <<"b">>}
Prims   == {Null, Num(<<"0">>), Num(<<"7">>), Str(<<>>), Str(<<"a">>)}
Vectors == {Vector3(Num(<<"7">>), Num(<<"0">>), Num(<<"0">>)),
            Vector3(Num(<<"0">>), Num(<<"7">>), Num(<<"0">>)),
            Vector3(Num(<<"0">>), Num(<<"0">>), Num(<<"7">>)),
            Vector3(Num(<<"0">>), Num(<<"0">>), Num(<<"0">>))}

SeqsUpTo(S, n) == UNION {[1..m -> S] : m \in 0..n}
KeySeqs(n) == {ks \in SeqsUpTo(Keys, n) :
                 \A i, j \in 1..Len(ks) : i # j => ks[i] # ks[j]}
ArrsOver(S, n) == {Arr(es) : es \in SeqsUpTo(S, n)}
ObjsOver(S, n) == UNION {{Obj(ks, vs) : vs \in [1..Len(ks) -> S]} : ks \in KeySeqs(n)}

RECURSIVE ValuesAt(_)
ValuesAt(d) ==
    IF d = 0 THEN Prims \cup Vectors
    ELSE LET S == ValuesAt(d - 1)
             n == IF d = 1 THEN MaxLen ELSE 1
         IN  S \cup ArrsOver(S, n) \cup ObjsOver(S, n)

ArgLists == {<<>>} \cup {<<v>> : v \in ValuesAt(MaxDepth)}
                   \cup {<<u, v>> : u, v \in ValuesAt(0)}

\* values the wire format has no form for, alone and nested one level down
Opaque == {Fn, Live(<< >>, << >>), Live(<<<<"a">>>>, <<Num(<<"7">>)>>)}
OpaqueValues == Opaque \cup {Arr(<<u>>) : u \in Opaque}
                       \cup {Arr(<<q, u>>) : q \in Prims, u \in Opaque}
                       \cup {Obj(<<<<"a">>>>, <<u>>) : u \in Opaque}
OpaqueLists == {<<v>> : v \in OpaqueValues} \cup {<<q, u>> : q \in Prims, u \in Opaque}

\* the `arguments` of the RpcArguments.serialize call for each call shape
Argv == IF cShape = "explicit" THEN <<Arr(cList)>> ELSE cList

(***************************************************************************)
(* Rate limiters.  An unset this.last / this.calls is 0 (falsy).           *)
(***************************************************************************)
Window == 1000

NoLimiter == [last |-> 0, calls |-> 0]

\* allows with >= in place of > in the rate test
GlobalRateLimiter_allows_offByOne(self, maxRate, t) ==
    IF self.last = 0 \/ t - self.last > Window
    THEN [self |-> [last |-> t, calls |-> 1], ret |-> TRUE]
    ELSE [self |-> [last |-> self.last, calls |-> self.calls + 1],
          ret  |-> ~(self.calls + 1 >= maxRate)]

\* allows that never starts a new window once one is open
GlobalRateLimiter_allows_noReset(self, maxRate, t) ==
    IF self.last = 0
    THEN [self |-> [last |-> t, calls |-> 1], ret |-> TRUE]
    ELSE [self |-> [last |-> self.last, calls |-> self.calls + 1],
          ret  |-> ~(self.calls + 1 > maxRate)]

\* GlobalRateLimiter.allows on limiter state self, at Date.now() = t
GlobalRateLimiter_allows(self, maxRate, t) ==
    IF self.last = 0 \/ t - self.last > Window
    THEN [self |-> [last |-> t, calls |-> 1], ret |-> TRUE]
    ELSE [self |-> [last |-> self.last, calls |-> self.calls + 1],
          ret  |-> ~(self.calls + 1 > maxRate)]

\* this.clients[uuid] of a PerUserRateLimiter (NoLimiter when not yet built)
UserLimiter(clients, uuid) ==
    IF uuid \in DOMAIN clients THEN clients[uuid] ELSE NoLimiter

\* PerUserRateLimiter.allows with every sender mapped to the same key
PerUserRateLimiter_allows_sharedKey(clients, maxRate, uuid, t) ==
    LET shared == IF DOMAIN clients = {} THEN NoLimiter
                  ELSE clients[CHOOSE u \in DOMAIN clients : TRUE]
        r == GlobalRateLimiter_allows(shared, maxRate, t)
    IN  [clients |-> [u \in DOMAIN clients \cup {uuid} |-> r.self],
         ret |-> r.ret]

\* PerUserRateLimiter.allows
PerUserRateLimiter_allows(clients, maxRate, uuid, t) ==
    LET r == GlobalRateLimiter_allows(UserLimiter(clients, uuid), maxRate, t)
    IN  [clients |-> [u \in DOMAIN clients \cup {uuid} |->
                        IF u = uuid THEN r.self ELSE clients[u]],
         ret |-> r.ret]


(***************************************************************************)
(* Registration: InternalInterspaceModule.open and _buildConfig.           *)
(* An argument of open is a record [kind, name, maxRate, unreliable]:      *)
(* kind is its typeof, name the string itself or the function's .name,     *)
(* maxRate / unreliable the option fields (-1 when the option is not set). *)
(***************************************************************************)
AUndef      == [kind |-> "undefined", name |-> "", maxRate |-> -1, unreliable |-> -1]
AStr(s)     == [kind |-> "string", name |-> s, maxRate |-> -1, unreliable |-> -1]
AFn(n)      == [kind |-> "function", name |-> n, maxRate |-> -1, unreliable |-> -1]
AOpts(m, u) == [kind |-> "object", name |-> "", maxRate |-> m, unreliable |-> u]

ANum        == [kind |-> "number", name |-> "", maxRate |-> -1, unreliable |-> -1]

AFalsy(a) == a.kind = "undefined" \/ (a.kind = "string" /\ a.name = "")
\* fn.name
NameProp(a) == IF a.kind = "function" THEN AStr(a.name) ELSE AUndef

DefaultMaxRate == 5

\* InternalInterspaceModule._buildConfig
buildConfig(opts) ==
    [maxRate    |-> IF ~AFalsy(opts) /\ opts.maxRate # -1
                    THEN opts.maxRate ELSE DefaultMaxRate,
     unreliable |-> IF ~AFalsy(opts) /\ opts.unreliable # -1
                    THEN opts.unreliable ELSE 0]

EmptyRegistry == [server |-> << >>, clients |-> << >>]

\* open without the test of the resolved name
open_noNameCheck(reg, type, a1, a2, a3) ==
    LET shape == IF ~AFalsy(a3) THEN "name,opts,fn"
                 ELSE IF AFalsy(a2) THEN "fn"
                 ELSE IF a1.kind = "string" THEN "name,fn"
                 ELSE "opts,fn"
        fn    == CASE shape = "name,opts,fn" -> a3
                   [] shape = "fn"           -> a1
                   [] OTHER                  -> a2
        name  == CASE shape \in {"name,opts,fn", "name,fn"} -> a1
                   [] OTHER                  -> NameProp(fn)
        opts  == IF shape = "name,opts,fn" THEN a2 ELSE AUndef
        config == buildConfig(opts)
        entry == [config  |-> config,
                  limiter |-> << >>,
                  fn      |-> fn]
    IN  IF FALSE
        THEN [reg |-> reg, threw |-> TRUE, bound |-> ""]
        ELSE [reg |-> [reg EXCEPT ![type] =
                         [n \in DOMAIN reg[type] \cup {name.name} |->
                            IF n = name.name THEN entry ELSE reg[type][n]]],
              threw |-> FALSE, bound |-> name.name]

\* InternalInterspaceModule.open(src, name, opts, fn), src.type = type
open(reg, type, a1, a2, a3) ==
    LET shape == IF ~AFalsy(a3) THEN "name,opts,fn"
                 ELSE IF AFalsy(a2) THEN "fn"
                 ELSE IF a1.kind = "string" THEN "name,fn"
                 ELSE "opts,fn"
        fn    == CASE shape = "name,opts,fn" -> a3
                   [] shape = "fn"           -> a1
                   [] OTHER                  -> a2
        name  == CASE shape \in {"name,opts,fn", "name,fn"} -> a1
                   [] OTHER                  -> NameProp(fn)
        opts  == IF shape = "name,opts,fn" THEN a2 ELSE AUndef
        config == buildConfig(opts)
        entry == [config  |-> config,
                  limiter |-> << >>,
                  fn      |-> fn]
    IN  IF AFalsy(name) \/ name.kind # "string"
        THEN [reg |-> reg, threw |-> TRUE, bound |-> ""]
        ELSE [reg |-> [reg EXCEPT ![type] =
                         [n \in DOMAIN reg[type] \cup {name.name} |->
                            IF n = name.name THEN entry ELSE reg[type][n]]],
              threw |-> FALSE, bound |-> name.name]

(***************************************************************************)
(* Dispatch: RpcHandler.invoke, VMGlobal.run, RpcHandler.readArgsToString. *)
(***************************************************************************)
\* names every plain object inherits from Object.prototype (a sample)
ObjectPrototypeNames == {"constructor"}

\* VMGlobal.registeredFunction: registeredFunctions[type][name] on plain objects
registeredFunction(reg, type, name) ==
    IF type \notin DOMAIN reg THEN "throws"
    ELSE IF name \in DOMAIN reg[type] THEN "own"
    ELSE IF name \in ObjectPrototypeNames THEN "inherited"
    ELSE "undefined"

\* VMServer.run(fnName, ...args): what the server registry holds under
\* fnName is applied; called lists the callables that were called
VMServer_run(reg, fnName) ==
    LET fn == IF fnName \in DOMAIN reg.server
              THEN [kind |-> "object", callable |-> reg.server[fnName].fn]
              ELSE IF fnName \in ObjectPrototypeNames
              THEN [kind |-> "function", callable |-> AFn("Object")]
              ELSE [kind |-> "undefined", callable |-> AUndef]
    IN  IF fn.kind = "function"
        THEN [called |-> <<fn.callable>>, threw |-> FALSE]
        ELSE [called |-> << >>, threw |-> TRUE]

\* a target validation that lets every target through
TargetValid_any(on) == TRUE

\* the target validation of RpcHandler.invoke
TargetValid(on) == on = "server"

\* arg.replace("'", "\\'"): only the first apostrophe gets a backslash
RECURSIVE ReplaceFirstQuote(_)
ReplaceFirstQuote(s) ==
    IF s = << >> THEN << >>
    ELSE IF s[1] = "'" THEN <<"\\", "'">> \o Tail(s)
    ELSE <<s[1]>> \o ReplaceFirstQuote(Tail(s))

\* how the VM reads the character sequence lit that follows an opening
\* apostrophe: TRUE iff the string literal closes exactly at the last character
RECURSIVE ClosesAtEnd(_)
ClosesAtEnd(lit) ==
    IF lit = << >> THEN FALSE
    ELSE IF lit[1] = "\\" THEN (Len(lit) >= 2 /\ ClosesAtEnd(SubSeq(lit, 3, Len(lit))))
    ELSE IF lit[1] = "'" THEN Len(lit) = 1
    ELSE ClosesAtEnd(Tail(lit))

\* the index in text s of the apostrophe that closes a string literal whose
\* body starts at index i; 0 when the literal is not closed
RECURSIVE ScanLit(_, _)
ScanLit(s, i) ==
    IF i > Len(s) THEN 0
    ELSE IF s[i] = "\\" THEN (IF i + 1 > Len(s) THEN 0 ELSE ScanLit(s, i + 2))
    ELSE IF s[i] = "'" THEN i
    ELSE ScanLit(s, i + 1)

\* the string a literal body denotes: a backslash gives the character after it
RECURSIVE Unescape(_)
Unescape(body) ==
    IF body = << >> THEN << >>
    ELSE IF body[1] = "\\" /\ Len(body) >= 2
         THEN <<body[2]>> \o Unescape(SubSeq(body, 3, Len(body)))
    ELSE <<body[1]>> \o Unescape(Tail(body))

\* how the VM reads argument text s from index i on: operands (a string
\* literal, or the identifier a of a sandbox global) joined by +
RECURSIVE ParsesFrom(_, _)
ParsesFrom(s, i) ==
    LET next == IF i > Len(s) THEN 0
                ELSE IF s[i] = "a" THEN i + 1
                ELSE IF s[i] = "'" THEN
                     (IF ScanLit(s, i + 1) = 0 THEN 0 ELSE ScanLit(s, i + 1) + 1)
                ELSE 0
    IN  IF next = 0 THEN FALSE
        ELSE IF next > Len(s) THEN TRUE
        ELSE s[next] = "+" /\ ParsesFrom(s, next + 1)

\* `'${arg}'` of readArgsToString for a string argument
argText(chars) == <<"'">> \o ReplaceFirstQuote(chars) \o <<"'">>

\* JSON.stringify(arg) gives a Vector3 the text of a plain {x, y, z} object
RECURSIVE HasVector(_)
HasVector(v) ==
    \/ v.t = "v3"
    \/ \E i \in 1..Len(v.e) : v.t \in {"arr", "obj"} /\ HasVector(v.e[i])

\* what the callable gets for one decoded argument once the call text is run:
\* "syntax" (the text does not parse), "exact" (the value that was decoded),
\* "altered" (another value), "code" (part of the argument ran as code)
received(arg) ==
    IF arg.t # "str" THEN (IF HasVector(arg) THEN "altered" ELSE "exact")
    ELSE LET text == argText(arg.p) IN
         IF ~ParsesFrom(text, 1) THEN "syntax"
         ELSE IF ~ClosesAtEnd(Tail(text)) THEN "code"
         ELSE IF Unescape(SubSeq(text, 2, Len(text) - 1)) = arg.p THEN "exact"
         ELSE "altered"

\* RpcHandler.readArgsToString: "throws" when decoding fails, else whether
\* the generated argument text parses
readArgsToString(serializedArgs) ==
    LET decoded == RpcArguments_read(serializedArgs) IN
    IF decoded = Thrown THEN "throws"
    ELSE IF \A i \in 1..Len(decoded.e) : received(decoded.e[i]) # "syntax"
         THEN "wellformed" ELSE "malformed"

\* the arguments of the call as the callable gets them, for text that parses
receivedAll(serializedArgs) ==
    LET decoded == RpcArguments_read(serializedArgs)
        got == {received(decoded.e[i]) : i \in 1..Len(decoded.e)}
    IN  IF "code" \in got THEN "code"
        ELSE IF "altered" \in got THEN "altered"
        ELSE "exact"

\* VMClients.byId -> new VMClient(room.states[id]): the constructor calls
\* realClient.on(...), a TypeError when the id is not in room.states
byIdThrows(st, uuid) == uuid \notin st

\* what a callable may raise: nothing, an Error, or the value null
Raised == {"none", "error", "null"}

\* VMGlobal.run: ran = the registered callable was entered, faulted = it
\* raised, threw = an exception left run.  The catch block logs e.stack,
\* itself a TypeError when the raised value e is null.
VMGlobal_run(reg, st, uuid, fn, serializedArgs, raised) ==
    LET text == readArgsToString(serializedArgs) IN
    IF text = "throws"
    THEN [ran |-> 0, faulted |-> FALSE, threw |-> TRUE, got |-> ""]
    ELSE IF \/ text = "malformed"
            \/ fn \notin DOMAIN reg.server
            \/ byIdThrows(st, uuid)
    THEN \* SyntaxError / TypeError inside this._vm.run(call): caught and logged
         [ran |-> 0, faulted |-> FALSE, threw |-> FALSE, got |-> ""]
    ELSE [ran |-> 1, faulted |-> raised # "none", threw |-> raised = "null",
          got |-> receivedAll(serializedArgs)]

NoCall == [kind |-> "none", on |-> "", fn |-> "", sender |-> "", lookup |-> "",
           outcome |-> "", ran |-> 0, faulted |-> FALSE, threw |-> FALSE,
           got |-> ""]

\* RpcHandler.invoke with one limiter shared by the functions of the target
RpcHandler_invoke_oneLimiter(reg, st, uuid, on, fn, serializedArgs, t, raised) ==
    LET base   == [NoCall EXCEPT !.kind = "invoke", !.on = on, !.fn = fn,
                                 !.sender = uuid]
        lookup == registeredFunction(reg, on, fn)
    IN  IF ~TargetValid(on)
        THEN [reg |-> reg, call |-> [base EXCEPT !.outcome = "dropTarget"]]
        ELSE IF lookup = "undefined"
        THEN [reg |-> reg,
              call |-> [base EXCEPT !.lookup = lookup, !.outcome = "dropUnknown"]]
        ELSE IF lookup # "own"
        THEN \* rpcInfo.limiter is undefined: TypeError out of invoke
             [reg |-> reg,
              call |-> [base EXCEPT !.lookup = lookup, !.outcome = "threw",
                                    !.threw = TRUE]]
        ELSE
        LET rpcInfo == reg[on][fn]
            lim     == PerUserRateLimiter_allows(rpcInfo.limiter,
                                                 rpcInfo.config.maxRate, uuid, t)
            reg2    == [reg EXCEPT ![on] = [n \in DOMAIN reg[on] |->
                                     [reg[on][n] EXCEPT !.limiter = lim.clients]]]
            seen    == [base EXCEPT !.lookup = lookup]
            r       == VMGlobal_run(reg, st, uuid, fn, serializedArgs, raised)
        IN  IF ~lim.ret
            THEN [reg |-> reg2, call |-> [seen EXCEPT !.outcome = "dropRate"]]
            ELSE [reg |-> reg2,
                  call |-> [seen EXCEPT !.outcome = IF r.threw THEN "threw" ELSE "run",
                                        !.ran = r.ran, !.faulted = r.faulted,
                                        !.threw = r.threw, !.got = r.got]]

\* RpcHandler.invoke(sender, {on, fn, args}) at Date.now() = t; the result
\* is the registry afterwards and the record of what the call did
RpcHandler_invoke(reg, st, uuid, on, fn, serializedArgs, t, raised) ==
    LET base   == [NoCall EXCEPT !.kind = "invoke", !.on = on, !.fn = fn,
                                 !.sender = uuid]
        lookup == registeredFunction(reg, on, fn)
    IN  IF ~TargetValid(on)
        THEN [reg |-> reg, call |-> [base EXCEPT !.outcome = "dropTarget"]]
        ELSE IF lookup = "undefined"
        THEN [reg |-> reg,
              call |-> [base EXCEPT !.lookup = lookup, !.outcome = "dropUnknown"]]
        ELSE IF lookup # "own"
        THEN \* rpcInfo.limiter is undefined: TypeError out of invoke
             [reg |-> reg,
              call |-> [base EXCEPT !.lookup = lookup, !.outcome = "threw",
                                    !.threw = TRUE]]
        ELSE
        LET rpcInfo == reg[on][fn]
            lim     == PerUserRateLimiter_allows(rpcInfo.limiter,
                                                 rpcInfo.config.maxRate, uuid, t)
            reg2    == [reg EXCEPT ![on][fn].limiter = lim.clients]
            seen    == [base EXCEPT !.lookup = lookup]
            r       == VMGlobal_run(reg, st, uuid, fn, serializedArgs, raised)
        IN  IF ~lim.ret
            THEN [reg |-> reg2, call |-> [seen EXCEPT !.outcome = "dropRate"]]
            ELSE [reg |-> reg2,
                  call |-> [seen EXCEPT !.outcome = IF r.threw THEN "threw" ELSE "run",
                                        !.ran = r.ran, !.faulted = r.faulted,
                                        !.threw = r.threw, !.got = r.got]]


(***************************************************************************)
(* The virtual document (dom).  A parsed tree is [up, kids]: up[n] is what *)
(* holds node n (an element: n.parent; a document root: n.root, with       *)
(* n.parent null; "F": the root of the fragment it was parsed from; "none":*)
(* detached; "unborn": not created yet) and kids[c] the children list of   *)
(* an element or document root.  The wrapper table is [vmElement, made]:   *)
(* vmElement[n] is node.__vmElement (0: unset, k: the k-th wrapper built   *)
(* for n) and made the wrappers constructed so far (the keys of            *)
(* ElementToCheerio), a wrapper being <<node, k>>.                         *)
(***************************************************************************)
Elems   == {"n1", "n2", "n3"}
DocRoot == "A"
tagName == [n \in Elems |-> IF n = "n1" THEN "body" ELSE "a"]
NoWrapper == <<"none", 0>>

\* node.parentNode
parentNode(dom, n) == IF dom.up[n] \in Elems THEN dom.up[n] ELSE "none"

RECURSIVE PosIn(_, _, _)
PosIn(s, n, i) == IF i > Len(s) THEN 0 ELSE IF s[i] = n THEN i ELSE PosIn(s, n, i + 1)
Without(s, n) == LET i == PosIn(s, n, 1)
                 IN  IF i = 0 THEN s ELSE SubSeq(s, 1, i - 1) \o SubSeq(s, i + 1, Len(s))
Listed(dom, n) == dom.up[n] \in DOMAIN dom.kids /\ PosIn(dom.kids[dom.up[n]], n, 1) # 0

\* node.firstChild, lastChild, previousSibling, nextSibling, parentNode
nodeProp(dom, n, prop) ==
    LET own  == dom.kids[n]
        sibs == IF Listed(dom, n) THEN dom.kids[dom.up[n]] ELSE <<n>>
        i    == PosIn(sibs, n, 1)
    IN  CASE prop = "parentNode"      -> parentNode(dom, n)
          [] prop = "firstChild"      -> IF own = << >> THEN "none" ELSE own[1]
          [] prop = "lastChild"       -> IF own = << >> THEN "none" ELSE own[Len(own)]
          [] prop = "previousSibling" -> IF i > 1 THEN sibs[i - 1] ELSE "none"
          [] OTHER                    -> IF i < Len(sibs) THEN sibs[i + 1] ELSE "none"

\* the nodes below the listed ones, in document order
RECURSIVE Walk(_, _, _)
Walk(dom, ns, depth) ==
    IF ns = << >> \/ depth = 0 THEN << >>
    ELSE <<ns[1]>> \o Walk(dom, dom.kids[ns[1]], depth - 1) \o Walk(dom, Tail(ns), depth)

RECURSIVE Pick(_, _)
Pick(ns, tag) ==
    IF ns = << >> THEN << >>
    ELSE (IF tagName[ns[1]] = tag THEN <<ns[1]>> ELSE << >>) \o Pick(Tail(ns), tag)

\* $(query) from the root, cheerioElement.find(query) below an element
find(dom, c, tag) == Pick(Walk(dom, dom.kids[c], Cardinality(Elems)), tag)

\* a traversal below n comes back to n
RECURSIVE Below(_, _, _)
Below(dom, S, depth) ==
    IF depth = 0 THEN S
    ELSE Below(dom, S \cup UNION {{dom.kids[m][i] : i \in 1..Len(dom.kids[m])} : m \in S},
               depth - 1)
InCycle(dom, n) ==
    n \in Below(dom, {dom.kids[n][i] : i \in 1..Len(dom.kids[n])}, Cardinality(Elems))

\* VMElement.from without the look at node.__vmElement
VMElement_from_noCache(tab, n) ==
    IF n = "none" THEN [tab |-> tab, ret |-> NoWrapper]
    ELSE LET k == Cardinality({w \in tab.made : w[1] = n}) + 1
         IN  [tab |-> [vmElement |-> [tab.vmElement EXCEPT ![n] = k],
                       made |-> tab.made \cup {<<n, k>>}],
              ret |-> <<n, k>>]

\* VMElement.from($, cheerioElement)
VMElement_from(tab, n) ==
    IF n = "none" THEN [tab |-> tab, ret |-> NoWrapper]
    ELSE IF tab.vmElement[n] # 0 THEN [tab |-> tab, ret |-> <<n, tab.vmElement[n]>>]
    ELSE LET k == Cardinality({w \in tab.made : w[1] = n}) + 1
         IN  [tab |-> [vmElement |-> [tab.vmElement EXCEPT ![n] = k],
                       made |-> tab.made \cup {<<n, k>>}],
              ret |-> <<n, k>>]

\* nodes.map(toElements)
RECURSIVE FromAll(_, _, _)
FromAll(tab, ns, acc) ==
    IF ns = << >> THEN [tab |-> tab, ret |-> acc]
    ELSE LET r == VMElement_from(tab, ns[1])
         IN  FromAll(r.tab, Tail(ns), Append(acc, r.ret))

\* a node leaves the children list of what holds it
Unlist(dom, n) ==
    IF Listed(dom, n)
    THEN [dom EXCEPT !.kids[dom.up[n]] = Without(dom.kids[dom.up[n]], n)]
    ELSE dom

\* cheerioElement.append(node)
append(dom, p, c) ==
    LET d == Unlist(dom, c)
    IN  [up |-> [d.up EXCEPT ![c] = p], kids |-> [d.kids EXCEPT ![p] = Append(d.kids[p], c)]]

\* VMElement.appendChild without the test of the child's parent
VMElement_appendChild_reparent(dom, p, c) ==
    [dom |-> append(dom, p, c), threw |-> FALSE]

\* VMElement.appendChild(child) of the wrapper of p, child the wrapper of c
VMElement_appendChild(dom, p, c) ==
    IF parentNode(dom, c) # "none"
    THEN [dom |-> dom, threw |-> TRUE]
    ELSE [dom |-> append(dom, p, c), threw |-> FALSE]

\* cheerio(...).remove() of one node
remove(dom, c) ==
    IF dom.up[c] \in {"none", "unborn"} THEN dom
    ELSE IF dom.up[c] \in DOMAIN dom.kids /\ ~Listed(dom, c) THEN dom
    ELSE LET d == Unlist(dom, c) IN [d EXCEPT !.up[c] = "none"]

\* VMElement.removeChild(child)
VMElement_removeChild(dom, p, c) ==
    IF PosIn(dom.kids[p], c, 1) = 0 THEN dom ELSE remove(dom, c)

\* kids.eq(index).replaceWith(node): node is taken out of where it is, then
\* spliced over el in the children list of what holds el; el is detached
replaceWith(dom, el, new) ==
    IF dom.up[el] \notin DOMAIN dom.kids THEN dom
    ELSE LET P    == dom.up[el]
             d1   == [Unlist(dom, new) EXCEPT !.up[new] = "none"]
             sibs == d1.kids[P]
             i    == PosIn(sibs, el, 1)
             out  == IF i # 0 THEN [sibs EXCEPT ![i] = new]
                     ELSE IF sibs = << >> THEN <<new>>
                     ELSE [sibs EXCEPT ![Len(sibs)] = new]
         IN  [up   |-> [[d1.up EXCEPT ![new] = P] EXCEPT ![el] = "none"],
              kids |-> [d1.kids EXCEPT ![P] = out]]

\* VMElement.replaceChildAt(index, newChild), index counted from 0
VMElement_replaceChildAt(dom, p, index, new) ==
    IF index >= 0 /\ index < Len(dom.kids[p])
    THEN replaceWith(dom, dom.kids[p][index + 1], new)
    ELSE dom

\* VMElement.replaceChild(oldChild, newChild)
VMElement_replaceChild(dom, p, old, new) ==
    LET index == PosIn(dom.kids[p], old, 1) - 1
    IN  IF index # -1 THEN [dom |-> VMElement_replaceChildAt(dom, p, index, new), ret |-> "true"]
        ELSE [dom |-> dom, ret |-> "undefined"]

(***************************************************************************)
(* Bounds and inputs of the limiter and dispatch runs.                     *)
(***************************************************************************)
MaxCalls == 6     \* cap on the calls counted by one limiter / one registry

Times    == {1, 501, 1001, 1002, 2002, 2003}
RpcTimes == {1, 1002}
Rates    == {0, 1, 2, DefaultMaxRate}
Callers  == {"u1", "u2"}
Senders  == {"u1"}

(***************************************************************************)
(* MinimalClient.  this.state is a record of x, y, z and obj, the identity *)
(* of the state object: the n-th object assigned to this.state.            *)
(***************************************************************************)
Axes == {"x", "y", "z"}

\* _.merge({x, y, z of current}, newState): an undefined source property is
\* skipped
merge(current, newState) ==
    [a \in Axes |-> IF newState[a] = Undefined THEN current[a] ELSE newState[a]]

\* updateState without the early return
MinimalClient_updateState_always(state, newState) ==
    LET merged == merge(state, newState)
    IN  [x |-> merged.x, y |-> merged.y, z |-> merged.z, obj |-> state.obj + 1]

\* MinimalClient.updateState
MinimalClient_updateState(state, newState) ==
    LET merged == merge(state, newState)
    IN  IF state.x = merged.x /\ state.y = merged.y /\ state.z = merged.z
        THEN state
        ELSE [x |-> merged.x, y |-> merged.y, z |-> merged.z, obj |-> state.obj + 1]

MaxObjs == 3      \* cap on the state objects one client goes through
Coords  == {Num(<<"0">>), Num(<<"1">>)}
Updates == [Axes -> Coords \cup {Undefined}]

\* new MinimalClient(uuid)
NewState == [x |-> Num(<<"0">>), y |-> Num(<<"0">>), z |-> Num(<<"0">>), obj |-> 1]
NoState  == [x |-> Undefined, y |-> Undefined, z |-> Undefined, obj |-> 0]
NoUpdate == [kind |-> "none", newState |-> [a \in Axes |-> Undefined],
             before |-> NoState, repeat |-> FALSE]

NoLCall == [kind |-> "none", who |-> "", ret |-> FALSE, nth |-> 0, at |-> 0,
            elapsed |-> -1, soloRet |-> FALSE]

CodecIdle == /\ cShape = "explicit" /\ cList = << >> /\ cWire = Undefined
             /\ cOut = Undefined /\ cAgain = Undefined /\ cPc = "idle"
LimIdle   == /\ gl = NoLimiter /\ glRate = 0 /\ pu = << >> /\ lcall = NoLCall
             /\ solo = [c \in Callers |-> NoLimiter]
RpcIdle   == /\ phase = "idle" /\ pending = {} /\ registry = EmptyRegistry
             /\ states = {} /\ last = NoCall
             /\ ready = 0 /\ joinQ = << >> /\ jlog = << >> /\ sdone = << >>

\* the arguments a script passes to open, and the registries it finds
OpenArgs == {AUndef, AStr("greet"), AStr(""), AFn("poke"), AFn(""),
             AOpts(1, -1), AOpts(-1, 1), ANum}
UsedEntry == [config  |-> [maxRate |-> 2, unreliable |-> 0],
              limiter |-> [u \in {"u1"} |-> [last |-> 1, calls |-> 2]],
              fn      |-> AFn("old")]
PriorRegistries ==
    {EmptyRegistry,
     [server  |-> [n \in {"greet", "poke"} |-> UsedEntry],
      clients |-> [n \in {"greet"} |-> UsedEntry]]}
NoOpen == [type |-> "", a1 |-> AUndef, a2 |-> AUndef, a3 |-> AUndef,
           prior |-> EmptyRegistry]
NoRes  == [threw |-> FALSE, bound |-> "", called |-> << >>, runThrew |-> FALSE]

\* the document and the wrapper table before anything is parsed
NoTree  == [up   |-> [n \in Elems |-> "unborn"],
            kids |-> [c \in Elems \cup {DocRoot} |-> << >>]]
NoWraps == [vmElement |-> [n \in Elems |-> 0], made |-> {}]
NoQuery == [op |-> "none", doc |-> 0, arg |-> "", used |-> 0, found |-> <<0, "">>]
NoDocs  == [made |-> << >>, slot |-> 0, q |-> NoQuery]
NoDomCall == [op |-> "none", on |-> "", args |-> << >>, index |-> -1,
              nodes |-> << >>, ret |-> << >>, threw |-> FALSE]

CliIdle   == mstate = NoState /\ mlast = NoUpdate
OpenIdle  == oCall = NoOpen /\ oPc = "idle" /\ oRes = NoRes
DomIdle   == tree = NoTree /\ wraps = NoWraps /\ dlast = NoDomCall /\ muts = 0
DocIdle   == vmdocs = NoDocs
SideIdle  == CliIdle /\ OpenIdle /\ DomIdle /\ DocIdle

\* Date.now() moves on
TickIn(T) == \E t \in T : t > now /\ now' = t

(***************************************************************************)
(* Codec runs: one RpcArguments.serialize call, then RpcArguments.read of  *)
(* what it returned.                                                       *)
(***************************************************************************)
InitCodec ==
    /\ cShape \in {"explicit", "variadic"}
    /\ cList \in ArgLists
    /\ cWire = Undefined /\ cOut = Undefined /\ cAgain = Undefined /\ cPc = "start"
    /\ now = 1 /\ LimIdle /\ RpcIdle /\ SideIdle

CodecSerialize ==
    /\ cPc = "start"
    /\ cWire' = RpcArguments_serialize(Argv)
    /\ cPc' = "encoded"
    /\ UNCHANGED <<cShape, cList, cOut, cAgain, now, limVars, rpcVars, sideVars>>

CodecRead ==
    /\ cPc = "encoded"
    /\ cOut' = RpcArguments_read(cWire)
    /\ cWire' = argsAfterRead(cWire)
    /\ cPc' = "decoded"
    /\ UNCHANGED <<cShape, cList, cAgain, now, limVars, rpcVars, sideVars>>

\* RpcArguments.read called once more on the same wire value
CodecReadAgain ==
    /\ cPc = "decoded"
    /\ cAgain' = RpcArguments_read(cWire)
    /\ cWire' = argsAfterRead(cWire)
    /\ cPc' = "again"
    /\ UNCHANGED <<cShape, cList, cOut, now, limVars, rpcVars, sideVars>>

NextCodec == CodecSerialize \/ CodecRead \/ CodecReadAgain

SpecCodec == InitCodec /\ [][NextCodec]_vars

\* the same run on argument lists that hold a function or a class instance
InitEncode ==
    /\ cShape \in {"explicit", "variadic"}
    /\ cList \in OpaqueLists
    /\ cWire = Undefined /\ cOut = Undefined /\ cAgain = Undefined /\ cPc = "start"
    /\ now = 1 /\ LimIdle /\ RpcIdle /\ SideIdle

SpecEncode == InitEncode /\ [][NextCodec]_vars

(***************************************************************************)
(* One GlobalRateLimiter called over time.                                 *)
(***************************************************************************)
InitGlobal ==
    /\ now = 1 /\ gl = NoLimiter /\ glRate \in Rates /\ pu = << >>
    /\ lcall = NoLCall /\ solo = [c \in Callers |-> NoLimiter]
    /\ CodecIdle /\ RpcIdle /\ SideIdle

Tick == TickIn(Times) /\ UNCHANGED <<codecVars, limVars, rpcVars, sideVars>>

GlobalAllows ==
    /\ gl.calls < MaxCalls
    /\ LET r     == GlobalRateLimiter_allows(gl, glRate, now)
           fresh == r.self.last = now /\ r.self.calls = 1
       IN  /\ gl' = r.self
           /\ lcall' = [kind |-> "call", who |-> "", ret |-> r.ret,
                        nth |-> IF gl.last = 0 \/ now - gl.last > Window
                                THEN 1 ELSE lcall.nth + 1,
                        at |-> now,
                        elapsed |-> IF gl.last = 0 THEN -1 ELSE now - gl.last,
                        soloRet |-> r.ret]
    /\ UNCHANGED <<now, glRate, pu, solo, codecVars, rpcVars, sideVars>>

NextGlobal == Tick \/ GlobalAllows

SpecGlobal == InitGlobal /\ [][NextGlobal]_vars

(***************************************************************************)
(* One PerUserRateLimiter called by several callers over time.             *)
(***************************************************************************)
PerUserAllows(c) ==
    /\ UserLimiter(pu, c).calls < MaxCalls
    /\ LET r == PerUserRateLimiter_allows(pu, glRate, c, now)
           s == GlobalRateLimiter_allows(solo[c], glRate, now)
       IN  /\ pu' = r.clients
           /\ solo' = [solo EXCEPT ![c] = s.self]
           /\ lcall' = [kind |-> "call", who |-> c, ret |-> r.ret,
                        nth |-> r.clients[c].calls, at |-> now,
                        elapsed |-> IF UserLimiter(pu, c).last = 0 THEN -1
                                    ELSE now - UserLimiter(pu, c).last,
                        soloRet |-> s.ret]
    /\ UNCHANGED <<now, gl, glRate, codecVars, rpcVars, sideVars>>

NextPerUser == Tick \/ \E c \in Callers : PerUserAllows(c)

SpecPerUser == InitGlobal /\ [][NextPerUser]_vars


(***************************************************************************)
(* A room: loading of its scripts, participants joining and leaving, and   *)
(* remote calls dispatched by the transport.                               *)
(***************************************************************************)
\* the script elements of the room description, in document order
Scripts == <<"inline", "external">>

\* the open calls a script of the room may make
OpenCalls ==
    {[type |-> "server",  a1 |-> AStr("greet"), a2 |-> AFn(""), a3 |-> AUndef],
     [type |-> "server",  a1 |-> AStr("greet"), a2 |-> AOpts(1, -1), a3 |-> AFn("")],
     [type |-> "clients", a1 |-> AStr("greet"), a2 |-> AFn(""), a3 |-> AUndef]}

\* what running one script does: the open calls it makes, then whether the
\* run ends with a fault (an exception or the VM timeout)
ScriptRuns == {[opens |-> os, faults |-> f] :
                 os \in {<< >>} \cup {<<c>> : c \in OpenCalls}, f \in BOOLEAN}

RECURSIVE RunOpens(_, _)
RunOpens(reg, opens) ==
    IF opens = << >> THEN reg
    ELSE RunOpens(open(reg, opens[1].type, opens[1].a1, opens[1].a2, opens[1].a3).reg,
                  Tail(opens))

\* vm.run(javascript) of a script that rolls its surroundings back on a fault
vm_run_rollback(reg, run) ==
    IF run.faults THEN EmptyRegistry ELSE RunOpens(reg, run.opens)

\* vm.run(javascript): the registrations the script made before it returned,
\* faulted or timed out stay in the shared registry
vm_run(reg, run) == RunOpens(reg, run.opens)

InlineScripts   == {i \in 1..Len(Scripts) : Scripts[i] = "inline"}
ExternalScripts == {i \in 1..Len(Scripts) : Scripts[i] = "external"}

\* the inline scripts run one after the other inside setDocumentXml
RECURSIVE RunInline(_, _, _)
RunInline(reg, i, runs) ==
    IF i > Len(Scripts) THEN reg
    ELSE IF Scripts[i] = "inline"
         THEN RunInline(vm_run(reg, runs[i]), i + 1, runs)
         ELSE RunInline(reg, i + 1, runs)

\* what became of a script whose text ran in the VM
Outcome(run) == IF run.faults THEN "faulted" ELSE "ran"

\* the calls the transport may deliver
MaxJoins  == 2     \* cap on the joins that wait for loaded()
Targets   == {"server", "clients"}
FnNames   == {"greet", "nosuch", "constructor"}
WireArgs  ==
    {Null,
     Arr(<<Str(<<"A">>)>>),
     Arr(<<Str(<<"'", "'">>)>>),
     Arr(<<Str(<<"\\", "'", "+", "a", "+", "'">>)>>),
     Arr(<<Arr(<<Str(<<"v", "3">>), Arr(<<Num(<<"7">>), Num(<<"0">>), Num(<<"0">>)>>)>>)>>),
     Arr(<<Arr(<<Str(<<"z">>)>>)>>)}

\* the calls counted by all limiters of the registry
RECURSIVE SumOver(_, _)
SumOver(f, S) ==
    IF S = {} THEN 0
    ELSE LET x == CHOOSE y \in S : TRUE IN f[x] + SumOver(f, S \ {x})
CallsOf(entry) ==
    SumOver([u \in DOMAIN entry.limiter |-> entry.limiter[u].calls],
            DOMAIN entry.limiter)
SumCalls(reg) ==
    SumOver([n \in DOMAIN reg.server |-> CallsOf(reg.server[n])], DOMAIN reg.server)

Init ==
    /\ now = 1
    /\ phase = "Reading" /\ pending = {} /\ registry = EmptyRegistry
    /\ states = {} /\ last = NoCall
    /\ ready = 0 /\ joinQ = << >> /\ jlog = << >>
    /\ sdone = [i \in 1..Len(Scripts) |-> "none"]
    /\ CodecIdle /\ LimIdle /\ SideIdle

\* the end of _loadFunctions once the load is in phase ph: on Ready `ready`
\* is emitted; as soon as the promise of loaded() is settled (either handler
\* of the last then() returned) the waiting join callbacks run in order
Settle(ph) ==
    /\ ready' = IF ph = "Ready" /\ phase # "Ready" THEN ready + 1 ELSE ready
    /\ IF ph \in {"Ready", "Failed"}
       THEN joinQ' = << >> /\ jlog' = joinQ
       ELSE joinQ' = joinQ /\ jlog' = << >>

\* RpcHandler._loadFunctions: the description is read; setDocumentXml builds
\* the VM, runs the inline scripts and starts the reads of the external ones
LoadDescription ==
    /\ phase = "Reading"
    /\ \/ /\ phase' = "Failed"
          /\ UNCHANGED <<pending, registry, sdone>>
       \/ \E runs \in [InlineScripts -> ScriptRuns] :
            /\ registry' = RunInline(registry, 1, runs)
            /\ sdone' = [i \in 1..Len(Scripts) |->
                           IF i \in InlineScripts THEN Outcome(runs[i]) ELSE sdone[i]]
            /\ pending' = ExternalScripts
            /\ phase' = IF \E i \in InlineScripts : runs[i].faults THEN "Failed"
                        ELSE IF ExternalScripts = {} THEN "Ready"
                        ELSE "Loading"
    /\ Settle(phase')
    /\ last' = NoCall
    /\ UNCHANGED <<now, states, codecVars, limVars, sideVars>>

\* the read of one external script completes: the read failed, or its text
\* runs in the VM; Promise.all settles on the first rejection or the last
\* fulfilment
RunExternal(i) ==
    /\ i \in pending
    /\ \E readOk \in BOOLEAN, run \in ScriptRuns :
         LET rejected == ~readOk \/ run.faults IN
         /\ registry' = IF readOk THEN vm_run(registry, run) ELSE registry
         /\ sdone' = [sdone EXCEPT ![i] = IF readOk THEN Outcome(run) ELSE "unread"]
         /\ pending' = pending \ {i}
         /\ phase' = IF phase # "Loading" THEN phase
                     ELSE IF rejected THEN "Failed"
                     ELSE IF pending' = {} THEN "Ready"
                     ELSE "Loading"
    /\ Settle(phase')
    /\ last' = NoCall
    /\ UNCHANGED <<now, states, codecVars, limVars, sideVars>>

\* roomStateMessage, type join; the VMGlobal listener emits the join on the
\* clients surface once loaded() is settled
Join(u) ==
    /\ Len(joinQ) < MaxJoins
    /\ states' = states \cup {u}
    /\ IF phase \in {"Ready", "Failed"}
       THEN joinQ' = joinQ /\ jlog' = <<u>>
       ELSE joinQ' = Append(joinQ, u) /\ jlog' = << >>
    /\ last' = NoCall
    /\ UNCHANGED <<now, phase, pending, registry, ready, sdone, codecVars, limVars, sideVars>>

\* roomStateMessage, type leave
Leave(u) ==
    /\ states' = states \ {u}
    /\ last' = NoCall /\ jlog' = << >>
    /\ UNCHANGED <<now, phase, pending, registry, ready, joinQ, sdone, codecVars, limVars, sideVars>>

\* rpcCall -> RpcHandler.invoke
Invoke(u, on, fn, args, raised) ==
    /\ SumCalls(registry) < MaxCalls
    /\ LET r == RpcHandler_invoke(registry, states, u, on, fn, args, now, raised)
       IN  /\ registry' = r.reg
           /\ last' = r.call
    /\ jlog' = << >>
    /\ UNCHANGED <<now, phase, pending, states, ready, joinQ, sdone, codecVars, limVars, sideVars>>

RpcTick == TickIn(RpcTimes) /\ last' = NoCall /\ jlog' = << >>
           /\ UNCHANGED <<phase, pending, registry, states, ready, joinQ, sdone,
                          codecVars, limVars, sideVars>>

Next ==
    \/ LoadDescription
    \/ \E i \in ExternalScripts : RunExternal(i)
    \/ \E u \in Senders : Join(u)
    \/ \E u \in Senders : Leave(u)
    \/ \E u \in Senders, on \in Targets, fn \in FnNames, args \in WireArgs,
          raised \in Raised : Invoke(u, on, fn, args, raised)
    \/ RpcTick

Spec == Init /\ [][Next]_vars

(***************************************************************************)
(* A participant's position updates.                                       *)
(***************************************************************************)
InitClient ==
    /\ mstate = NewState /\ mlast = NoUpdate
    /\ now = 1 /\ CodecIdle /\ LimIdle /\ RpcIdle /\ OpenIdle /\ DomIdle /\ DocIdle

\* roomStateMessage, type update, for a participant in room.states
Update(newState) ==
    /\ mstate.obj < MaxObjs
    /\ mstate' = MinimalClient_updateState(mstate, newState)
    /\ mlast' = [kind |-> "update", newState |-> newState, before |-> mstate,
                 repeat |-> mlast.kind = "update" /\ mlast.newState = newState]
    /\ UNCHANGED <<now, codecVars, limVars, rpcVars, openVars, domVars, docVars>>

NextClient == \E newState \in Updates : Update(newState)

SpecClient == InitClient /\ [][NextClient]_vars

(***************************************************************************)
(* A script's registration: one open call on a surface, then, when it      *)
(* returned an invoker for the server surface, one call of that invoker.   *)
(***************************************************************************)
InitOpen ==
    /\ registry \in PriorRegistries
    /\ \E type \in {"server", "clients"}, a1, a2, a3 \in OpenArgs :
         oCall = [type |-> type, a1 |-> a1, a2 |-> a2, a3 |-> a3, prior |-> registry]
    /\ oPc = "start" /\ oRes = NoRes
    /\ phase = "idle" /\ pending = {} /\ states = {} /\ last = NoCall
    /\ ready = 0 /\ joinQ = << >> /\ jlog = << >> /\ sdone = << >>
    /\ now = 1 /\ CodecIdle /\ LimIdle /\ CliIdle /\ DomIdle /\ DocIdle

\* server.open(...) / clients.open(...)
Open ==
    /\ oPc = "start"
    /\ LET r == open(registry, oCall.type, oCall.a1, oCall.a2, oCall.a3)
       IN  /\ registry' = r.reg
           /\ oRes' = [oRes EXCEPT !.threw = r.threw, !.bound = r.bound]
    /\ oPc' = "done"
    /\ UNCHANGED <<oCall, now, phase, pending, states, last, ready, joinQ, jlog, sdone,
                   codecVars, limVars, cliVars, domVars, docVars>>

\* the invoker returned by server.open: src.run.bind(src, name)
CallInvoker ==
    /\ oPc = "done" /\ ~oRes.threw /\ oCall.type = "server"
    /\ LET r == VMServer_run(registry, oRes.bound)
       IN  oRes' = [oRes EXCEPT !.called = r.called, !.runThrew = r.threw]
    /\ oPc' = "invoked"
    /\ UNCHANGED <<oCall, now, rpcVars, codecVars, limVars, cliVars, domVars, docVars>>

NextOpen == Open \/ CallInvoker

SpecOpen == InitOpen /\ [][NextOpen]_vars

(***************************************************************************)
(* A script working on the room document: lookups through the document and *)
(* through wrappers it holds, createElementFromString, and the mutators.   *)
(***************************************************************************)
Tags     == {"body", "a"}
NavProps == {"parentNode", "previousSibling", "nextSibling", "firstChild", "lastChild"}
MaxIndex == 1     \* largest index passed to replaceChildAt
MaxMuts  == 2     \* cap on the mutator calls of one script

\* new VMDocument(iml): <body><a/></body>
InitDom ==
    /\ tree = [up   |-> [n \in Elems |-> CASE n = "n1" -> DocRoot
                                          [] n = "n2" -> "n1"
                                          [] OTHER -> "unborn"],
               kids |-> [c \in Elems \cup {DocRoot} |->
                           CASE c = DocRoot -> <<"n1">>
                             [] c = "n1" -> <<"n2">>
                             [] OTHER -> << >>]]
    /\ wraps = NoWraps /\ dlast = NoDomCall /\ muts = 0
    /\ now = 1 /\ CodecIdle /\ LimIdle /\ RpcIdle /\ CliIdle /\ OpenIdle /\ DocIdle

Held == {w[1] : w \in wraps.made}
DomRest == <<now, codecVars, limVars, rpcVars, cliVars, openVars, docVars>>

\* the nodes a lookup reached are wrapped and returned
Lookup(op, on, args, ns) ==
    LET r == FromAll(wraps, ns, << >>)
    IN  /\ wraps' = r.tab
        /\ dlast' = [NoDomCall EXCEPT !.op = op, !.on = on, !.args = args,
                                      !.nodes = ns, !.ret = r.ret]

\* VMDocument._query: getElementsByTagName, getElementById, body
DocQuery(tag) ==
    /\ Lookup("query", "document", <<tag>>, find(tree, DocRoot, tag))
    /\ UNCHANGED <<tree, muts, DomRest>>

\* element.getElementsByTagName and the other find(...) lookups of a wrapper
ElQuery(n, tag) ==
    /\ n \in Held /\ ~InCycle(tree, n)
    /\ Lookup("find", n, <<tag>>, find(tree, n, tag))
    /\ UNCHANGED <<tree, muts, DomRest>>

\* element.parentNode, previousSibling, nextSibling, firstChild, lastChild
Nav(n, prop) ==
    /\ n \in Held
    /\ Lookup("nav", n, <<prop>>, <<nodeProp(tree, n, prop)>>)
    /\ UNCHANGED <<tree, muts, DomRest>>

\* element.childNodes
ChildNodes(n) ==
    /\ n \in Held
    /\ Lookup("childNodes", n, << >>, tree.kids[n])
    /\ UNCHANGED <<tree, muts, DomRest>>

\* document.createElementFromString(imlString)
CreateElement(n) ==
    /\ tree.up[n] = "unborn"
    /\ tree' = [tree EXCEPT !.up[n] = "F"]
    /\ Lookup("create", "document", << >>, <<n>>)
    /\ UNCHANGED <<muts, DomRest>>

Mutated(op, on, args, index, threw) ==
    /\ muts < MaxMuts /\ muts' = muts + 1
    /\ dlast' = [NoDomCall EXCEPT !.op = op, !.on = on, !.args = args,
                              !.index = index, !.threw = threw]

AppendChild(p, c) ==
    /\ p \in Held /\ c \in Held
    /\ LET r == VMElement_appendChild(tree, p, c)
       IN  tree' = r.dom /\ Mutated("appendChild", p, <<c>>, -1, r.threw)
    /\ UNCHANGED <<wraps, DomRest>>

RemoveChild(p, c) ==
    /\ p \in Held /\ c \in Held
    /\ tree' = VMElement_removeChild(tree, p, c)
    /\ Mutated("removeChild", p, <<c>>, -1, FALSE)
    /\ UNCHANGED <<wraps, DomRest>>

ReplaceChild(p, old, new) ==
    /\ p \in Held /\ old \in Held /\ new \in Held
    /\ tree' = VMElement_replaceChild(tree, p, old, new).dom
    /\ Mutated("replaceChild", p, <<old, new>>, -1, FALSE)
    /\ UNCHANGED <<wraps, DomRest>>

ReplaceChildAt(p, index, new) ==
    /\ p \in Held /\ new \in Held
    /\ tree' = VMElement_replaceChildAt(tree, p, index, new)
    /\ Mutated("replaceChildAt", p, <<new>>, index, FALSE)
    /\ UNCHANGED <<wraps, DomRest>>

NextDom ==
    \/ \E tag \in Tags : DocQuery(tag)
    \/ \E n \in Elems, tag \in Tags : ElQuery(n, tag)
    \/ \E n \in Elems, prop \in NavProps : Nav(n, prop)
    \/ \E n \in Elems : ChildNodes(n)
    \/ \E n \in Elems : CreateElement(n)
    \/ \E p, c \in Elems : AppendChild(p, c)
    \/ \E p, c \in Elems : RemoveChild(p, c)
    \/ \E p, old, new \in Elems : ReplaceChild(p, old, new)
    \/ \E p, new \in Elems, index \in 0..MaxIndex : ReplaceChildAt(p, index, new)

SpecDom == InitDom /\ [][NextDom]_vars

(***************************************************************************)
(* Several VMDocuments in one process: the rooms' documents and the ones   *)
(* terraform builds.  A document is the markup it was constructed from,    *)
(* given as the set of ids of its elements; the n-th cheerio.load gives    *)
(* the n-th $, whose nodes are <<n, id>>.                                   *)
(***************************************************************************)
MaxDocs == 3
Ids     == {"a", "b"}
Imls    == {{"a"}, {"b"}, {"a", "b"}}
DocOps  == {"getElementById", "getElementsByTagName", "getElementsByClassName",
            "body", "createElementFromString"}
NoNode  == <<0, "">>

\* DocumentTo$[document] = $: a property of the WeakMap object under the key
\* String(document), "[object Object]" for every VMDocument
DocumentTo_set(d, document, load) == [d EXCEPT !.slot = load]

\* getDocument$(document): DocumentTo$[document], read under the same key
getDocument(d, document) == d.slot

\* $(query) on the tree of the n-th load, for a query that selects by id
query(d, n, id) == IF id \in d.made[n] THEN <<n, id>> ELSE NoNode

InitDocs ==
    /\ vmdocs = NoDocs
    /\ now = 1 /\ CodecIdle /\ LimIdle /\ RpcIdle /\ CliIdle /\ OpenIdle /\ DomIdle

DocsRest == <<now, codecVars, limVars, rpcVars, cliVars, openVars, domVars>>

\* new VMDocument(iml), by setDocumentXml of a room or by terraform
NewDocument(iml) ==
    /\ Len(vmdocs.made) < MaxDocs
    /\ LET n == Len(vmdocs.made) + 1
           d == [vmdocs EXCEPT !.made = Append(vmdocs.made, iml)]
       IN  vmdocs' = [DocumentTo_set(d, n, n) EXCEPT !.q = NoQuery]
    /\ UNCHANGED DocsRest

\* a script of the room of `document` calls a query of its document; all of
\* them take their $ from getDocument$(this)
DocumentQuery(document, op, id) ==
    /\ document \in 1..Len(vmdocs.made)
    /\ LET n == getDocument(vmdocs, document)
       IN  vmdocs' = [vmdocs EXCEPT !.q = [op |-> op, doc |-> document, arg |-> id,
                                           used |-> n,
                                           found |-> IF op = "createElementFromString"
                                                     THEN NoNode
                                                     ELSE query(vmdocs, n, id)]]
    /\ UNCHANGED DocsRest

NextDocs ==
    \/ \E iml \in Imls : NewDocument(iml)
    \/ \E document \in 1..MaxDocs, op \in DocOps, id \in Ids : DocumentQuery(document, op, id)

SpecDocs == InitDocs /\ [][NextDocs]_vars

(***************************************************************************)
(* Dispatch to a loaded room that has two registered functions and two     *)
(* participants.                                                           *)
(***************************************************************************)
DispatchNames == FnNames \cup {"poke"}

\* the registry after server.open('greet', {maxRate: m}, fn) and
\* server.open('poke', {maxRate: k}, fn)
TwoFunctions(m, k) ==
    RunOpens(EmptyRegistry,
             <<[type |-> "server", a1 |-> AStr("greet"), a2 |-> AOpts(m, -1), a3 |-> AFn("")],
               [type |-> "server", a1 |-> AStr("poke"), a2 |-> AOpts(k, -1), a3 |-> AFn("")]>>)

InitDispatch ==
    /\ now = 1
    /\ phase = "Ready" /\ pending = {} /\ ready = 1
    /\ joinQ = << >> /\ jlog = << >> /\ sdone = << >>
    /\ registry = TwoFunctions(1, 2)
    /\ states = Callers /\ last = NoCall
    /\ CodecIdle /\ LimIdle /\ SideIdle

\* rpcCall -> RpcHandler.invoke, from either participant
Dispatch(u, on, fn) ==
    /\ SumCalls(registry) < MaxCalls
    /\ LET r == RpcHandler_invoke(registry, states, u, on, fn,
                                  Arr(<<Str(<<"A">>)>>), now, "none")
       IN  /\ registry' = r.reg
           /\ last' = r.call
    /\ UNCHANGED <<now, phase, pending, states, ready, joinQ, jlog, sdone,
                   codecVars, limVars, sideVars>>

DispatchTick ==
    /\ TickIn(RpcTimes) /\ last' = NoCall
    /\ UNCHANGED <<phase, pending, registry, states, ready, joinQ, jlog, sdone,
                   codecVars, limVars, sideVars>>

NextDispatch ==
    \/ \E u \in Callers, on \in Targets, fn \in DispatchNames : Dispatch(u, on, fn)
    \/ DispatchTick

SpecDispatch == InitDispatch /\ [][NextDispatch]_vars

(***************************************************************************)
(* Properties of the rate limiters.                                        *)
(***************************************************************************)
\* C1: with maxRate = m >= 1, the first m calls of a window are admitted,
\* call m+1 of that window is denied, and the limiter's count equals the
\* number of calls made in the window, denied ones included.
C1_WindowAdmitsMaxRate ==
    (lcall.kind = "call" /\ glRate >= 1) =>
        /\ lcall.nth <= glRate => lcall.ret
        /\ lcall.nth = glRate + 1 => ~lcall.ret
        /\ gl.calls = lcall.nth

C1_Witness ==
    /\ lcall.kind = "call" /\ glRate = DefaultMaxRate
    /\ lcall.nth = DefaultMaxRate + 1 /\ ~lcall.ret /\ gl.calls = DefaultMaxRate + 1

\* C2 as stated: a call made 1000ms or more after the window start opens a
\* fresh window (start = now, count = 1) and is admitted.
C2_FreshWindowFromThousand ==
    (lcall.kind = "call" /\ lcall.elapsed >= Window) =>
        (lcall.ret /\ gl.last = lcall.at /\ gl.calls = 1)

\* C2 amended: a call made strictly more than 1000ms after the window start
\* opens a fresh window (start = now, count = 1) and is admitted.
C2_FreshWindowAfterThousand ==
    (lcall.kind = "call" /\ lcall.elapsed > Window) =>
        (lcall.ret /\ gl.last = lcall.at /\ gl.calls = 1)

C2_Witness ==
    /\ lcall.kind = "call" /\ lcall.elapsed > Window /\ lcall.ret
    /\ gl.last = lcall.at /\ gl.calls = 1 /\ lcall.at = now

\* C3: every caller's limiter state, and the answer to every call, is what
\* a limiter that saw only that caller's calls would hold and answer.
C3_CallersIndependent ==
    /\ \A c \in Callers : UserLimiter(pu, c) = solo[c]
    /\ lcall.kind = "call" => lcall.ret = lcall.soloRet

C3_Witness ==
    /\ lcall.kind = "call" /\ lcall.who = "u2" /\ lcall.ret /\ glRate >= 1
    /\ "u1" \in DOMAIN pu /\ pu["u1"].calls > glRate
    /\ now - pu["u1"].last <= Window

C10_EmptyDistinctFromAbsent ==
    (cPc = "decoded" /\ cList = << >>) =>
        /\ cOut = Arr(<< >>)
        /\ cShape = "variadic" => cWire = Null
        /\ cShape = "explicit" => cWire # Null

\* C10 amended: zero arguments and the explicit empty sequence both give
\* the sentinel null on the wire, and the sentinel reads as [].
C10_EmptyIsAbsent ==
    (cPc = "decoded" /\ cList = << >>) =>
        (cWire = Null /\ cOut = Arr(<< >>))

C10_Witness ==
    /\ cPc = "decoded" /\ cShape = "explicit" /\ cList = << >>
    /\ cWire = Null /\ cOut = Arr(<< >>)

\* C11: serializing an argument list that holds a function or a class
\* instance, at top level or nested, fails instead of returning a wire value.
C11_OpaqueRejected ==
    (cPc # "start" /\ cList \in OpaqueLists) => cWire = Thrown

(***************************************************************************)
(* Properties of the document.                                             *)
(***************************************************************************)
\* C12: a node has at most one wrapper, the wrapper a lookup returns for a
\* node is that one wrapper, and wrappers of distinct nodes are distinct.
C12_OneWrapperPerNode ==
    /\ \A v, w \in wraps.made : v[1] = w[1] => v = w
    /\ \A n \in Elems : wraps.vmElement[n] # 0 => <<n, wraps.vmElement[n]>> \in wraps.made
    /\ Len(dlast.ret) = Len(dlast.nodes)
    /\ \A i \in 1..Len(dlast.ret) :
         IF dlast.nodes[i] = "none" THEN dlast.ret[i] = NoWrapper
         ELSE /\ dlast.ret[i] \in wraps.made
              /\ dlast.ret[i][1] = dlast.nodes[i]
              /\ \A j \in 1..Len(dlast.ret) :
                   dlast.ret[i] = dlast.ret[j] <=> dlast.nodes[i] = dlast.nodes[j]

C12_Witness ==
    /\ dlast.op = "query" /\ dlast.args = <<"a">>
    /\ dlast.ret = <<<<"n3", 1>>, <<"n2", 1>>>>
    /\ tree.kids["n1"] = <<"n3", "n2">>

\* C13: appendChild(child) on a child that has a parent raises and leaves
\* the tree as it was; on a child without a parent it returns and the child
\* is the last child of the element.
C13_AppendChild ==
    [][dlast'.op = "appendChild" =>
         LET p == dlast'.on
             c == dlast'.args[1]
         IN  IF parentNode(tree, c) # "none"
             THEN dlast'.threw /\ tree' = tree
             ELSE /\ ~dlast'.threw
                  /\ tree'.up[c] = p
                  /\ tree'.kids[p] # << >>
                  /\ tree'.kids[p][Len(tree'.kids[p])] = c]_vars

C13_Witness ==
    /\ dlast.op = "appendChild" /\ dlast.threw
    /\ dlast.on = "n2" /\ dlast.args = <<"n3">>
    /\ tree.kids["n1"] = <<"n2", "n3">>

(***************************************************************************)
(* Properties of loading.                                                  *)
(***************************************************************************)
\* C14: when a join is emitted to the scripts, loading has completed and the
\* code of every discovered script has run.
C14_JoinAfterAllScripts ==
    jlog # << >> => (phase \in {"Ready", "Failed"} /\ pending = {})

\* C15: once load completion is declared (Ready or Failed), no discovered
\* script task is still pending.
C15_CompleteAfterAllTasks ==
    phase \in {"Ready", "Failed"} => pending = {}

\* C16: when loading has ended Failed, `ready` has not fired, the registry is
\* empty and every dispatch to the server target is dropped as unknown.
C16_FailedLeavesNothing ==
    phase = "Failed" =>
        /\ ready = 0
        /\ registry = EmptyRegistry
        /\ (last.kind = "invoke" /\ last.on = "server") => last.outcome = "dropUnknown"

IsName(a)  == a.kind = "string" /\ a.name # ""
IsNamed(a) == a.kind = "function" /\ a.name # ""

\* the entry the open call left under name n is [fresh limiter, callable f,
\* defaults overlaid with the options o]
Stored(n, f, o) ==
    /\ ~oRes.threw
    /\ n \in DOMAIN registry[oCall.type]
    /\ registry[oCall.type][n] =
         [config |-> buildConfig(o), limiter |-> << >>, fn |-> f]

\* C18: the invoker returned by server.open calls the registered callable
\* once, locally, and returns normally.
C18_InvokerCallsOnce ==
    oPc = "invoked" =>
        /\ oRes.called = <<registry.server[oRes.bound].fn>>
        /\ ~oRes.runThrew

\* C19: for each accepted call shape (named callable; name, callable;
\* options, callable; name, options, callable) the stored entry has the
\* resolved name, the supplied callable, a fresh limiter and the defaults
\* overlaid with the options of that call.
C19_EntryForEveryShape ==
    oPc = "done" =>
        LET c == oCall IN
        /\ (IsNamed(c.a1) /\ c.a2 = AUndef /\ c.a3 = AUndef)
               => Stored(c.a1.name, c.a1, AUndef)
        /\ (IsName(c.a1) /\ c.a2.kind = "function" /\ c.a3 = AUndef)
               => Stored(c.a1.name, c.a2, AUndef)
        /\ (c.a1.kind = "object" /\ IsNamed(c.a2) /\ c.a3 = AUndef)
               => Stored(c.a2.name, c.a2, c.a1)
        /\ (IsName(c.a1) /\ c.a2.kind = "object" /\ c.a3.kind = "function")
               => Stored(c.a1.name, c.a3, c.a2)

\* C20: an open call with no resolvable name (no name string and a callable
\* without a name, or a name argument that is not a non-empty string) raises
\* and leaves both registries as they were.
C20_UnnamedRaises ==
    oPc = "done" =>
        LET c == oCall
            form == IF ~AFalsy(c.a3) THEN 3 ELSE IF ~AFalsy(c.a2) THEN 2 ELSE 1
            callable == IF form = 3 THEN c.a3 ELSE IF form = 2 THEN c.a2 ELSE c.a1
            hasNameArg == form = 3 \/ (form = 2 /\ c.a1.kind = "string")
            unresolvable == IF hasNameArg THEN ~IsName(c.a1) ELSE ~IsNamed(callable)
        IN  unresolvable => (oRes.threw /\ registry = c.prior)

C20_Witness ==
    /\ oPc = "done" /\ oRes.threw
    /\ oCall.a1 = AFn("") /\ oCall.a2 = AUndef /\ oCall.a3 = AUndef
    /\ registry = oCall.prior /\ registry # EmptyRegistry

(***************************************************************************)
(* Properties of dispatch.                                                 *)
(***************************************************************************)
\* the calls the sender of the last dispatch has made to its function in the
\* current window, as counted by that function's limiter
LastNth == registry.server[last.fn].limiter[last.sender].calls

\* C4: for a server function registered with the default config, the first
\* five dispatches of one caller in a window each execute the callable and
\* the sixth is dropped without executing it.
C4_FiveRunSixthDropped ==
    (/\ last.kind = "invoke" /\ last.on = "server" /\ last.lookup = "own"
     /\ registry.server[last.fn].config = buildConfig(AUndef)) =>
        /\ LastNth <= DefaultMaxRate => last.ran = 1
        /\ LastNth = DefaultMaxRate + 1 => (last.ran = 0 /\ last.outcome = "dropRate")

\* C5: a dispatch whose target is not `server` is dropped and executes no
\* registered callable, whatever name it carries and whatever is registered.
C5_OtherTargetDropped ==
    (last.kind = "invoke" /\ last.on # "server") =>
        (last.outcome = "dropTarget" /\ last.ran = 0 /\ ~last.threw)

C5_Witness ==
    /\ last.kind = "invoke" /\ last.on = "clients" /\ last.outcome = "dropTarget"
    /\ last.fn \in DOMAIN registry.clients /\ last.fn \in DOMAIN registry.server
    /\ last.sender \in states

\* C6: a dispatch to `server` naming a function that is not in the server
\* registry is dropped as unknown: nothing runs and invoke returns normally.
C6_UnregisteredDropped ==
    (/\ last.kind = "invoke" /\ last.on = "server"
     /\ last.fn \notin DOMAIN registry.server) =>
        (last.outcome = "dropUnknown" /\ last.ran = 0 /\ ~last.threw)

\* C7: a dispatch to a registered server function that the limiter admits
\* executes the callable exactly once, for any caller and any valid arguments.
C7_AdmittedRunsOnce ==
    (/\ last.kind = "invoke" /\ last.on = "server" /\ last.lookup = "own"
     /\ last.outcome \in {"run", "threw"}) =>
        last.ran = 1

\* C8: a fault raised by the dispatched callable is caught inside dispatch:
\* invoke returns normally and the function stays registered.
C8_FaultCaught ==
    (last.kind = "invoke" /\ last.faulted) =>
        /\ ~last.threw /\ last.outcome = "run"
        /\ last.fn \in DOMAIN registry.server

\* C21: when a dispatch executes the callable, the callable gets exactly the
\* values decoded from the encoded arguments, and nothing in the arguments
\* has run as code.
C21_ArgumentsArriveExact ==
    (last.kind = "invoke" /\ last.ran = 1) => last.got = "exact"

\* C22: no dispatch raises out of invoke, whatever the target, the function
\* name, the limiter's answer, the encoded arguments and the callable do.
C22_InvokeNeverRaises ==
    last.kind = "invoke" => ~last.threw

\* C23: a script run that faults or times out while the room loads aborts
\* that run alone: once setDocumentXml has gone over the scripts every inline
\* script has run and every external one has run or still waits for its
\* file, no later step takes a waiting script off the list without settling
\* it or changes what became of a script, and every name in the registry
\* stays in the registry.
C23_FaultAbortsOnlyItsRun ==
    [][ /\ \A type \in DOMAIN registry :
             DOMAIN registry[type] \subseteq DOMAIN registry'[type]
        /\ \A i \in DOMAIN sdone :
             /\ sdone[i] # "none" => sdone'[i] = sdone[i]
             /\ i \in pending => (i \in pending' \/ sdone'[i] # "none")
        /\ (\E i \in DOMAIN sdone' : sdone'[i] # "none" \/ i \in pending') =>
             /\ \A j \in InlineScripts : sdone'[j] \in {"ran", "faulted"}
             /\ \A j \in ExternalScripts : j \in pending' \/ sdone'[j] # "none"
      ]_vars

\* a script faulted, another script ran after it, and a registration is there
C23_Witness ==
    /\ \E i \in DOMAIN sdone : sdone[i] = "faulted"
    /\ \E j \in ExternalScripts : sdone[j] = "ran"
    /\ sdone[1] \in {"ran", "faulted"}
    /\ registry # EmptyRegistry

\* the nodes whose children list holds n
Holders(dom, n) == {c \in DOMAIN dom.kids : PosIn(dom.kids[c], n, 1) # 0}

\* C24: after any sequence of appendChild, removeChild, replaceChild,
\* replaceChildAt and createElementFromString calls every node is in the
\* children list of at most one node, and that node is the one the node's
\* parent pointer (for a top-level node, its root pointer) names.
C24_SingleParent ==
    \A n \in Elems :
        /\ Cardinality(Holders(tree, n)) <= 1
        /\ \A c \in Holders(tree, n) : tree.up[n] = c

\* C25: for every non-empty argument list the variadic call
\* serialize(a1, ..., an) and the one-list call serialize([a1, ..., an]) give
\* the same wire form, a single argument that is a sequence included.
C25_CallShapesAgree ==
    (cPc # "start" /\ cList # << >>) =>
        cWire = RpcArguments_serialize(<<Arr(cList)>>)

\* C26: for every maxRate >= 0, zero included, a GlobalRateLimiter admits at
\* most maxRate calls in one window: no call that is the k-th of its window
\* with k > maxRate is admitted.
C26_AtMostMaxRateAdmitted ==
    (lcall.kind = "call" /\ lcall.ret) => lcall.nth <= glRate

\* C27: RpcArguments.read leaves the wire value it was given as it was, and
\* a second read of the same wire value returns what the first one returned.
C27_ReadLeavesInput ==
    /\ cPc \in {"decoded", "again"} => cWire = RpcArguments_serialize(Argv)
    /\ cPc = "again" => cAgain = cOut

\* C28: a query of a VMDocument (getElementById, getElementsByTagName,
\* getElementsByClassName, body, createElementFromString) works on the tree
\* loaded from the markup that document was constructed from, however many
\* other VMDocuments were constructed before or after it.
C28_DocumentsIsolated ==
    vmdocs.q.op # "none" =>
        /\ vmdocs.q.used = vmdocs.q.doc
        /\ vmdocs.q.op # "createElementFromString" =>
              vmdocs.q.found = query(vmdocs, vmdocs.q.doc, vmdocs.q.arg)

\* C29: whenever joins are delivered to the script listeners, every
\* participant announced is in the room's participant collection; a
\* participant who joined and left while the scripts were loading is not
\* announced once loading has completed.
C29_AnnouncedStillPresent ==
    \A i \in DOMAIN jlog : jlog[i] \in states

\* whether the limiter of function g of the registry admits caller u at time t
Admits(reg, type, g, u, t) ==
    PerUserRateLimiter_allows(reg[type][g].limiter, reg[type][g].config.maxRate, u, t).ret

\* C30: a dispatch dropped for an invalid target or an unknown function name
\* leaves the registry, every limiter included, as it was; any other
\* dispatch of function f by caller A leaves the limiter state of every
\* other (function, caller) pair as it was, and with it the answer that
\* pair would get now or later.
C30_DispatchTouchesOneLimiter ==
    [][last'.kind = "invoke" =>
         IF last'.outcome \in {"dropTarget", "dropUnknown"}
         THEN registry' = registry
         ELSE \A type \in DOMAIN registry :
                /\ DOMAIN registry'[type] = DOMAIN registry[type]
                /\ \A g \in DOMAIN registry[type], u \in Callers :
                     <<type, g, u>> # <<"server", last'.fn, last'.sender>> =>
                       /\ UserLimiter(registry'[type][g].limiter, u)
                            = UserLimiter(registry[type][g].limiter, u)
                       /\ \A t \in RpcTimes :
                            t >= now => Admits(registry', type, g, u, t)
                                          = Admits(registry, type, g, u, t)]_vars

\* caller u1 has just been rate-limited on greet while u2's count on greet
\* and u1's count on poke stand at one call each
C30_Witness ==
    /\ last.kind = "invoke" /\ last.fn = "greet" /\ last.sender = "u1"
    /\ last.outcome = "dropRate"
    /\ UserLimiter(registry.server["greet"].limiter, "u2").calls = 1
    /\ UserLimiter(registry.server["poke"].limiter, "u1").calls = 1

====
